---- MODULE Spec2Model ----
(***************************************************************************)
(* A model of the tc-scripts worker tools:                                 *)
(*   worker_pool_stats.py   (worker-level tool, current version)           *)
(*   worker-pool-stats.py   (worker-level tool, earlier version)           *)
(*   worker_pool_types.py   (pool-level tool)                              *)
(*                                                                         *)
(* Python values are modelled as follows.  A str is a TLA+ string, an int  *)
(* an integer, a list a sequence.  A dict is a sequence of <<key, value>>  *)
(* pairs with pairwise different keys, in insertion order (the order that  *)
(* dict.keys() and dict.items() iterate in).  A defaultdict(int) is a      *)
(* function whose domain is the set of keys written so far.                *)
(* The values of a worker's or a pool's fields carry their type, which in  *)
(* flatten_config and to_csv decides what the code does with them: Str,    *)
(* IntVal, List, Dict and Datetime build the records [t |-> type,          *)
(* v |-> value].                                                           *)
(***************************************************************************)
EXTENDS Integers, Sequences, FiniteSets, TLC

VARIABLES
    tool,                   \* which of the three scripts runs
    pc,                     \* position of the run
    pos,                    \* index of the element the current for-loop is at
    workers,                \* worker_summary / to_csv / get_pool_workers: workers
    pools,                  \* get_worker_pools / to_csv: pools
    pages,                  \* the pages the Worker Manager holds, in order
    calls,                  \* the queries of the listing calls made so far
    page,                   \* get_pool_workers / get_worker_pools: page
    token,                  \* get_pool_workers / get_worker_pools: token
    page_count,             \* get_pool_workers / get_worker_pools: page_count
    key_set,                \* worker_summary: key_set
    key_worker_counts,      \* worker_summary: key_worker_counts
    key_capacity_counts,    \* worker_summary: key_capacity_counts
    state_worker_counts,    \* worker_summary: state_worker_counts
    state_capacity_counts,  \* worker_summary: state_capacity_counts
    state_order,            \* worker_summary: state_order
    known_states,           \* worker_summary: known_states
    keys,                   \* worker_summary: keys (sorted key_set)
    state_rows,             \* worker_summary: the rows of the per-state table
    width,                  \* worker_summary / worker_pool_summary: the column widths
    output,                 \* worker_summary / worker_pool_summary: output, a list of
                            \* lines, each line the list of its formatted cells
    error,                  \* the exception that ended the run, or None
    full_csv_datetimes,     \* to_csv: full_csv_datetimes
    raw_value,              \* to_csv: raw_value, the string under a date key
    value,                  \* to_csv: value, the datetime made from raw_value
    csv_set,                \* to_csv (pool-level): csv_set
    headers,                \* to_csv: headers
    header_set,             \* to_csv: header_set
    flat_configs,           \* to_csv (pool-level): flat_configs
    output_flat_configs,    \* to_csv (pool-level): output_flat_configs
    out_headers,            \* to_csv (pool-level): out_headers
    csv_file,               \* the rows handed to the CSV file so far
    config_dict,            \* flatten_config: config_dict
    prefix,                 \* flatten_config: prefix
    suffix,                 \* flatten_config: suffix
    ret,                    \* flatten_config: ret, the mapping returned
    auth_options,           \* __main__: auth_options, a dict
    args,                   \* __main__: args, the parsed command line
    source,                 \* the list in the file --from-json-file names
    api,                    \* the Worker Manager client's calls besides listings
    opened,                 \* the paths opened for writing
    dumped,                 \* the lists json.dump wrote, in order
    stdout,                 \* what was printed
    retcode                 \* the exit status of the process, None while it runs

summaryVars == <<key_set, key_worker_counts, key_capacity_counts,
                 state_worker_counts, state_capacity_counts,
                 state_order, known_states, keys, state_rows,
                 width, output>>

fetchVars == <<pages, calls, page, token, page_count>>

convVars == <<full_csv_datetimes, raw_value, value>>

csvVars == <<csv_set, headers, header_set, flat_configs, output_flat_configs,
             out_headers, csv_file>>

flatVars == <<config_dict, prefix, suffix, ret>>

mainVars == <<auth_options, args, source, api, opened, dumped, stdout, retcode>>

vars == <<tool, pc, pos, error, workers, pools, fetchVars, summaryVars,
          convVars, csvVars, flatVars, mainVars>>

\* The three scripts
Stats == "worker_pool_stats.py"
StatsOld == "worker-pool-stats.py"
Types == "worker_pool_types.py"

\* Python's None
None == "None"

\* bool(x) of a str or None
Truthy(x) == x # None /\ x # ""

-----------------------------------------------------------------------------
(* Python built-ins *)

\* dict.get(key, default)
Get(d, key, default) ==
    IF \E n \in 1..Len(d) : d[n][1] = key
    THEN d[CHOOSE n \in 1..Len(d) : d[n][1] = key][2]
    ELSE default

\* key in dict
HasKey(d, key) == \E n \in 1..Len(d) : d[n][1] = key

\* list(dict.keys())
Keys(d) == [n \in 1..Len(d) |-> d[n][1]]

\* set(dict.keys())
KeySet(d) == {d[n][1] : n \in 1..Len(d)}

\* defaultdict(int)[key]
Count(d, key) == IF key \in DOMAIN d THEN d[key] ELSE 0

\* defaultdict(int)[key] += n
Incr(d, key, n) ==
    [k \in DOMAIN d \cup {key} |-> IF k = key THEN Count(d, k) + n ELSE d[k]]

\* list.index(x): the first position of x, counted from 1
Index(seq, x) == CHOOSE n \in 1..Len(seq) :
                     seq[n] = x /\ \A m \in 1..(n - 1) : seq[m] # x

\* s[n] of a str, counted from 1
Char(s, n) == SubSeq(s, n, n)

\* The characters the model's strings use, in code point order.
CodePoints == "-./0123456789:ABCDEFGHIJKLMNOPQRSTUVWXYZ_abcdefghijklmnopqrstuvwxyz"

\* The position of each character in CodePoints
OrdTable ==
    [c \in {Char(CodePoints, n) : n \in 1..Len(CodePoints)} |->
        CHOOSE n \in 1..Len(CodePoints) : Char(CodePoints, n) = c]

\* ord(c), up to a monotone renumbering
Ord(c) == OrdTable[c]

\* a < b of two str: lexicographic by code point
StrLess(a, b) ==
    \E n \in 1..(Len(a) + 1) :
        /\ n <= Len(b)
        /\ \A m \in 1..(n - 1) : Char(a, m) = Char(b, m)
        /\ \/ n = Len(a) + 1
           \/ Ord(Char(a, n)) < Ord(Char(b, n))

\* max(...) of a non-empty set of int
Max(S) == CHOOSE x \in S : \A y \in S : y <= x

\* All sequences over S of length at most n
SeqUpTo(S, n) == UNION {[1..m -> S] : m \in 0..n}

RECURSIVE SumSeq(_)
SumSeq(seq) == IF seq = <<>> THEN 0 ELSE seq[1] + SumSeq(Tail(seq))

RECURSIVE SumOver(_, _)
\* the sum of f[x] over x in S
SumOver(f, S) ==
    IF S = {} THEN 0
    ELSE LET x == CHOOSE x \in S : TRUE IN f[x] + SumOver(f, S \ {x})

-----------------------------------------------------------------------------
(* get_pool_workers and get_worker_pools: the inputs *)

\* Bound: the most pages a listing has
MaxPages == 3
\* Bound: the most items on one page
MaxPageItems == 1

\* The items a page can hold
PageItems == { << <<"workerId", "w1">> >>, << <<"workerId", "w2">> >> }

\* The key a page holds its items under
ItemsKey(t) == IF t = Types THEN "workerPools" ELSE "workers"

\* The continuation token that page n carries when it is not the last one
TokenOf(n) == "t" \o ToString(n)

\* The listings of n pages: every page but the last carries a token
Listings(t, n) ==
    { [k \in 1..n |->
          << <<ItemsKey(t), items[k]>> >>
            \o (IF k < n THEN << <<"continuationToken", TokenOf(k)>> >> ELSE <<>>)] :
      items \in [1..n -> SeqUpTo(PageItems, MaxPageItems)] }

\* worker_manager.listWorkersForWorkerPool / listWorkerPools: the first page
\* for a call without a token, else the page after the one carrying the token
ListPage(query) ==
    IF query = None THEN pages[1]
    ELSE pages[1 + CHOOSE k \in 1..Len(pages) :
                       Get(pages[k], "continuationToken", None) = query]

-----------------------------------------------------------------------------
(* get_pool_workers (both worker-level scripts) *)

\* A slip: the page's items replace the list instead of extending it
ExtendReplaces(list, items) == items

\* workers.extend(items)
Extend(list, items) == list \o items

\* The query of a call in the loop: {'continuationToken': token}
LoopQuery(tok) == tok

\* page = listWorkersForWorkerPool(pool_id) and the lines up to the loop
GetPoolWorkersFirst ==
    /\ tool \in {Stats, StatsOld}
    /\ pc = "get_pool_workers"
    /\ LET first == ListPage(None)
       IN  /\ calls' = Append(calls, None)
           /\ page' = first
           /\ page_count' = 1
           /\ token' = Get(first, "continuationToken", None)
           /\ workers' = Get(first, "workers", <<>>)
    /\ pc' = "get_pool_workers_loop"
    /\ error' = error
    /\ UNCHANGED <<mainVars, tool, pos, pools, pages, summaryVars, convVars, csvVars, flatVars>>

\* One pass of `while token:`
GetPoolWorkersNext ==
    /\ tool \in {Stats, StatsOld}
    /\ pc = "get_pool_workers_loop"
    /\ Truthy(token)
    /\ LET next == ListPage(LoopQuery(token))
       IN  /\ calls' = Append(calls, LoopQuery(token))
           /\ page' = next
           /\ token' = Get(next, "continuationToken", None)
           /\ workers' = Extend(workers, Get(next, "workers", <<>>))
           /\ page_count' = page_count + 1
    /\ error' = error
    /\ UNCHANGED <<mainVars, tool, pc, pos, pools, pages, summaryVars, convVars, csvVars, flatVars>>

\* The loop ends and the workers are returned
GetPoolWorkersReturn ==
    /\ tool \in {Stats, StatsOld}
    /\ pc = "get_pool_workers_loop"
    /\ ~Truthy(token)
    /\ pc' = "get_pool_workers_done"
    /\ error' = error
    /\ UNCHANGED <<mainVars, tool, pos, workers, pools, fetchVars, summaryVars, convVars, csvVars, flatVars>>

-----------------------------------------------------------------------------
(* get_worker_pools (pool-level script) *)

\* page = listWorkerPools() and the lines up to the loop
GetWorkerPoolsFirst ==
    /\ tool = Types
    /\ pc = "get_worker_pools"
    /\ LET first == ListPage(None)
       IN  /\ calls' = Append(calls, None)
           /\ page' = first
           /\ page_count' = 1
           /\ token' = Get(first, "continuationToken", None)
           /\ pools' = Get(first, "workerPools", <<>>)
    /\ pc' = "get_worker_pools_loop"
    /\ error' = error
    /\ UNCHANGED <<mainVars, tool, pos, workers, pages, summaryVars, convVars, csvVars, flatVars>>

\* One pass of `while token:`.  The call's first argument is the name
\* pool_id, which is neither a parameter nor a local nor a global of the
\* module: evaluating it raises NameError before any call is made.
GetWorkerPoolsNext ==
    /\ tool = Types
    /\ pc = "get_worker_pools_loop"
    /\ Truthy(token)
    /\ pc' = "get_worker_pools_raised"
    /\ error' = "NameError"
    /\ UNCHANGED <<mainVars, tool, pos, workers, pools, fetchVars, summaryVars, convVars, csvVars, flatVars>>

\* The loop ends and the pools are returned
GetWorkerPoolsReturn ==
    /\ tool = Types
    /\ pc = "get_worker_pools_loop"
    /\ ~Truthy(token)
    /\ pc' = "get_worker_pools_done"
    /\ error' = error
    /\ UNCHANGED <<mainVars, tool, pos, workers, pools, fetchVars, summaryVars, convVars, csvVars, flatVars>>

-----------------------------------------------------------------------------
(* RE_DATETIME and the datetime made of its groups *)

Digits == {"0", "1", "2", "3", "4", "5", "6", "7", "8", "9"}

\* The character at position n of s, "" past its end
CharAt(s, n) == IF n <= Len(s) THEN SubSeq(s, n, n) ELSE ""

\* The character class [0-hi]
DigitUpTo(c, hi) == c \in Digits /\ Ord(c) <= Ord(hi)

\* Where the msecond group starts: \.? takes a period at position 20 if there
\* is one (giving it back cannot help: the group needs a digit there)
MsecondAt(s) == IF CharAt(s, 20) = "." THEN 21 ELSE 20

\* RE_DATETIME.match(s): anchored at the start only
DatetimeMatch(s) ==
    /\ \A n \in 1..4 : CharAt(s, n) \in Digits
    /\ CharAt(s, 5) = "-"
    /\ DigitUpTo(CharAt(s, 6), "1") /\ CharAt(s, 7) \in Digits
    /\ CharAt(s, 8) = "-"
    /\ DigitUpTo(CharAt(s, 9), "3") /\ CharAt(s, 10) \in Digits
    /\ CharAt(s, 11) = "T"
    /\ DigitUpTo(CharAt(s, 12), "5") /\ CharAt(s, 13) \in Digits
    /\ CharAt(s, 14) = ":"
    /\ DigitUpTo(CharAt(s, 15), "5") /\ CharAt(s, 16) \in Digits
    /\ CharAt(s, 17) = ":"
    /\ DigitUpTo(CharAt(s, 18), "5") /\ CharAt(s, 19) \in Digits
    /\ \A n \in MsecondAt(s)..(MsecondAt(s) + 2) : CharAt(s, n) \in Digits
    /\ CharAt(s, MsecondAt(s) + 3) = "Z"

\* dt_match.groups()
DatetimeGroups(s) ==
    [year |-> SubSeq(s, 1, 4), month |-> SubSeq(s, 6, 7), day |-> SubSeq(s, 9, 10),
     hour |-> SubSeq(s, 12, 13), minute |-> SubSeq(s, 15, 16),
     second |-> SubSeq(s, 18, 19),
     msecond |-> SubSeq(s, MsecondAt(s), MsecondAt(s) + 2)]

\* int(s) of a string of digits
RECURSIVE ParseInt(_)
ParseInt(s) ==
    IF Len(s) = 0 THEN 0
    ELSE 10 * ParseInt(SubSeq(s, 1, Len(s) - 1))
           + (Ord(SubSeq(s, Len(s), Len(s))) - Ord("0"))

IsLeap(year) == year % 4 = 0 /\ (year % 100 # 0 \/ year % 400 = 0)

DaysInMonth(year, month) ==
    IF month = 2 THEN (IF IsLeap(year) THEN 29 ELSE 28)
    ELSE IF month \in {4, 6, 9, 11} THEN 30 ELSE 31

\* The arguments datetime(...) accepts; any other raises ValueError
DatetimeArgsOk(year, month, day, hour, minute, second, microsecond) ==
    /\ year \in 1..9999
    /\ month \in 1..12
    /\ day \in 1..DaysInMonth(year, month)
    /\ hour \in 0..23
    /\ minute \in 0..59
    /\ second \in 0..59
    /\ microsecond \in 0..999999

\* A slip: a value that does not match is passed on as it is
ToDatetimeLenient(raw, full) ==
    IF ~DatetimeMatch(raw) THEN [error |-> None, value |-> raw]
    ELSE LET g == DatetimeGroups(raw)
             microsecond == IF full THEN 1000 * ParseInt(g.msecond) ELSE 0
         IN  IF ~DatetimeArgsOk(ParseInt(g.year), ParseInt(g.month), ParseInt(g.day),
                                ParseInt(g.hour), ParseInt(g.minute),
                                ParseInt(g.second), microsecond)
             THEN [error |-> "ValueError", value |-> None]
             ELSE [error |-> None,
                   value |-> [year |-> ParseInt(g.year), month |-> ParseInt(g.month),
                              day |-> ParseInt(g.day), hour |-> ParseInt(g.hour),
                              minute |-> ParseInt(g.minute),
                              second |-> ParseInt(g.second),
                              microsecond |-> microsecond,
                              tzinfo |-> IF full THEN "utc" ELSE None]]

\* The conversion of the string under a date key: the exception it raises (or
\* None) and the datetime it makes.  `assert dt_match` raises AssertionError
\* when the pattern does not match.
ToDatetime(raw, full) ==
    IF ~DatetimeMatch(raw) THEN [error |-> "AssertionError", value |-> None]
    ELSE LET g == DatetimeGroups(raw)
             microsecond == IF full THEN 1000 * ParseInt(g.msecond) ELSE 0
         IN  IF ~DatetimeArgsOk(ParseInt(g.year), ParseInt(g.month), ParseInt(g.day),
                                ParseInt(g.hour), ParseInt(g.minute),
                                ParseInt(g.second), microsecond)
             THEN [error |-> "ValueError", value |-> None]
             ELSE [error |-> None,
                   value |-> [year |-> ParseInt(g.year), month |-> ParseInt(g.month),
                              day |-> ParseInt(g.day), hour |-> ParseInt(g.hour),
                              minute |-> ParseInt(g.minute),
                              second |-> ParseInt(g.second),
                              microsecond |-> microsecond,
                              tzinfo |-> IF full THEN "utc" ELSE None]]

\* The conversion applied to one string (to_csv, lines 135 to 143)
Normalize ==
    /\ pc = "to_datetime"
    /\ LET r == ToDatetime(raw_value, full_csv_datetimes)
       IN  /\ value' = r.value
           /\ error' = r.error
           /\ pc' = IF r.error = None THEN "to_datetime_done" ELSE "to_datetime_raised"
    /\ UNCHANGED <<mainVars, tool, pos, workers, pools, fetchVars, summaryVars,
                   full_csv_datetimes, raw_value, csvVars, flatVars>>

\* The strings the conversion is tried on
DateYears == {"2021", "2024"}
DateMonths == {"02", "03", "13"}
DateDays == {"05", "29", "30"}
DateHours == {"00", "14", "23", "24"}
DateMinutes == {"22"}
DateSeconds == {"09", "59"}
DateFractions == {"", ".500", "500", ".5"}

DateStrings ==
    { y \o "-" \o mo \o "-" \o d \o "T" \o h \o ":" \o mi \o ":" \o sec \o f \o "Z" :
        y \in DateYears, mo \in DateMonths, d \in DateDays, h \in DateHours,
        mi \in DateMinutes, sec \in DateSeconds, f \in DateFractions }
    \cup {"2021-13-99Txx:00:00Z", "2021-03-05T14:22:09.500Zjunk", ""}

-----------------------------------------------------------------------------
(* flatten_config (pool-level script) *)

\* The values of a pool's JSON carry their Python type, which flatten_config
\* inspects: a str, a dict (Mapping) or a list.  The dict handed to a call is
\* its sequence of items.
Str(v) == [t |-> "str", v |-> v]
Dict(items) == [t |-> "dict", v |-> items]
List(items) == [t |-> "list", v |-> items]

\* isinstance(val, Mapping)
IsMapping(val) == val.t = "dict"

\* isinstance(val, list)
IsList(val) == val.t = "list"

\* pre: f"{prefix}_" for a non-empty prefix, else ""
Pre(pfx) == IF pfx # "" THEN pfx \o "_" ELSE ""

\* A slip: no assertion, so a second write of a key replaces the first value
PutOverwrites(acc, full_key, val) ==
    IF acc.error # None THEN acc
    ELSE IF HasKey(acc.ret, full_key)
    THEN [acc EXCEPT !.ret = [n \in 1..Len(acc.ret) |->
                                 IF acc.ret[n][1] = full_key
                                 THEN <<full_key, val>> ELSE acc.ret[n]]]
    ELSE [acc EXCEPT !.ret = Append(acc.ret, <<full_key, val>>)]

\* assert full_key not in ret; ret[full_key] = val
Put(acc, full_key, val) ==
    IF acc.error # None THEN acc
    ELSE IF HasKey(acc.ret, full_key)
    THEN [acc EXCEPT !.error = "AssertionError"]
    ELSE [acc EXCEPT !.ret = Append(acc.ret, <<full_key, val>>)]

\* for nkey, nval in nested.items(): the write of f"{pre}{nkey}"
RECURSIVE PutAll(_, _, _)
PutAll(acc, pre, nested) ==
    IF nested = <<>> THEN acc
    ELSE PutAll(Put(acc, pre \o nested[1][1], nested[1][2]), pre, Tail(nested))

RECURSIVE FlattenConfig(_, _, _)
RECURSIVE FlattenItems(_, _, _, _, _)
RECURSIVE FlattenList(_, _, _, _, _, _)

\* for pos, item in enumerate(val), from the item at index n - 1 on
FlattenList(acc, pre, key, items, n, sfx) ==
    IF n > Len(items) \/ acc.error # None THEN acc
    ELSE LET item == items[n]
             subkey == key \o "_" \o ToString(n - 1)
             nested == FlattenConfig(item.v, subkey, sfx)
         IN  FlattenList(IF IsMapping(item)
                         THEN IF nested.error # None
                              THEN [acc EXCEPT !.error = nested.error]
                              ELSE PutAll(acc, pre, nested.ret)
                         ELSE Put(acc, pre \o subkey, item),
                         pre, key, items, n + 1, sfx)

\* for key, val in config_dict.items(), from the n-th item on
FlattenItems(acc, pre, items, n, sfx) ==
    IF n > Len(items) \/ acc.error # None THEN acc
    ELSE LET key == items[n][1]
             val == items[n][2]
             nested == FlattenConfig(val.v, key, sfx)
         IN  FlattenItems(IF IsMapping(val)
                          THEN IF nested.error # None
                               THEN [acc EXCEPT !.error = nested.error]
                               ELSE PutAll(acc, pre, nested.ret)
                          ELSE IF sfx /\ IsList(val)
                          THEN FlattenList(acc, pre, key, val.v, 1, sfx)
                          ELSE Put(acc, pre \o key, val),
                          pre, items, n + 1, sfx)

\* flatten_config(config_dict, prefix, suffix): the exception raised (or None)
\* and the mapping returned
FlattenConfig(items, pfx, sfx) ==
    FlattenItems([error |-> None, ret |-> <<>>], Pre(pfx), items, 1, sfx)

\* One call of flatten_config
Flatten ==
    /\ pc = "flatten_config"
    /\ LET r == FlattenConfig(config_dict, prefix, suffix)
       IN  /\ error' = r.error
           /\ ret' = IF r.error = None THEN r.ret ELSE ret
           /\ pc' = IF r.error = None
                    THEN "flatten_config_done" ELSE "flatten_config_raised"
    /\ UNCHANGED <<mainVars, tool, pos, workers, pools, fetchVars, summaryVars, convVars,
                   csvVars, config_dict, prefix, suffix>>

\* Bound: the most items of a flattened dict
MaxFlattenItems == 2

FlattenKeys == {"", "a", "b", "a_b", "a_0"}

FlattenValues ==
    { Str("x"),
      Dict(<<>>),
      Dict(<< <<"b", Str("x")>> >>),
      Dict(<< <<"0", Str("x")>> >>),
      Dict(<< <<"a", Dict(<< <<"b", Str("x")>> >>)>>, <<"a_b", Str("y")>> >>),
      List(<< Str("x") >>),
      List(<< Dict(<< <<"b", Str("x")>> >>), Str("y") >>) }

\* The dicts of at most MaxFlattenItems items with pairwise different keys
FlattenInputs ==
    { d \in SeqUpTo(FlattenKeys \X FlattenValues, MaxFlattenItems) :
        \A m, n \in 1..Len(d) : m # n => d[m][1] # d[n][1] }

-----------------------------------------------------------------------------
(* to_csv (all three scripts) *)

\* The rows of a CSV export hold JSON values with their Python type, like the
\* pools: Str, IntVal, Dict, List, and the datetime made for a date key.
IntVal(n) == [t |-> "int", v |-> n]
Datetime(d) == [t |-> "datetime", v |-> d]

\* date_keys; the earlier worker-level script converts nothing
DateKeys(t) ==
    IF t = StatsOld THEN {} ELSE {"created", "expires", "lastModified", "lastChecked"}

\* A slip: the key is appended without the look at header_set
AddKeyUnchecked(hs, key) ==
    [headers |-> Append(hs.headers, key), header_set |-> hs.header_set \cup {key}]

\* if key not in header_set: header_set.add(key); headers.append(key)
AddKey(hs, key) ==
    IF key \notin hs.header_set
    THEN [headers |-> Append(hs.headers, key), header_set |-> hs.header_set \cup {key}]
    ELSE hs

\* for key in record.keys(): ...
RECURSIVE AddKeys(_, _)
AddKeys(hs, ks) ==
    IF ks = <<>> THEN hs ELSE AddKeys(AddKey(hs, ks[1]), Tail(ks))

\* for worker in workers: for key in worker.keys(): ...
RECURSIVE GatherHeaders(_, _)
GatherHeaders(hs, records) ==
    IF records = <<>> THEN hs
    ELSE GatherHeaders(AddKeys(hs, Keys(records[1])), Tail(records))

\* The value stored in row[key]: the datetime for a date key, else raw_value.
\* RE_DATETIME.match raises TypeError for a value that is no str.
ConvertValue(t, key, raw, full) ==
    IF key \notin DateKeys(t) THEN [error |-> None, value |-> raw]
    ELSE IF raw.t # "str" THEN [error |-> "TypeError", value |-> raw]
    ELSE LET r == ToDatetime(raw.v, full)
         IN  [error |-> r.error,
              value |-> IF r.error = None THEN Datetime(r.value) ELSE raw]

\* for key, raw_value in raw_worker.items(): row[key] = value
RECURSIVE ConvertRow(_, _, _, _)
ConvertRow(t, items, full, acc) ==
    IF items = <<>> \/ acc.error # None THEN acc
    ELSE LET c == ConvertValue(t, items[1][1], items[1][2], full)
         IN  ConvertRow(t, Tail(items), full,
                        IF c.error # None THEN [acc EXCEPT !.error = c.error]
                        ELSE [acc EXCEPT !.row = Append(acc.row, <<items[1][1], c.value>>)])

\* What DictWriter.writerow hands to the file: the row's value for every
\* field name, '' for a name the row lacks
RowCells(fieldnames, row) ==
    [n \in 1..Len(fieldnames) |-> Get(row, fieldnames[n], Str(""))]

\* The records the row loop goes through
RowSource == IF tool = Types THEN output_flat_configs ELSE workers

\* DictWriter's fieldnames
Fieldnames == IF tool = Types THEN out_headers ELSE headers

\* Worker-level to_csv, up to output.writeheader()
CsvGatherHeaders ==
    /\ tool \in {Stats, StatsOld}
    /\ pc = "to_csv"
    /\ LET hs == GatherHeaders([headers |-> <<>>, header_set |-> {}], workers)
       IN  /\ headers' = hs.headers
           /\ header_set' = hs.header_set
           /\ csv_file' = <<hs.headers>>
    /\ pos' = 1
    /\ pc' = "to_csv_rows"
    /\ UNCHANGED <<mainVars, tool, error, workers, pools, fetchVars, summaryVars, convVars,
                   csv_set, flat_configs, output_flat_configs, out_headers, flatVars>>

\* One pass of the row loop: the row is converted, then written.  A row with
\* a name outside fieldnames makes DictWriter raise ValueError.
CsvWriteRow ==
    /\ pc = "to_csv_rows"
    /\ pos <= Len(RowSource)
    /\ LET c == ConvertRow(tool, RowSource[pos], full_csv_datetimes,
                           [error |-> None, row |-> <<>>])
           extras == KeySet(c.row) \ {Fieldnames[n] : n \in 1..Len(Fieldnames)}
       IN  IF c.error # None
           THEN /\ error' = c.error
                /\ pc' = "to_csv_raised"
                /\ UNCHANGED <<pos, csv_file>>
           ELSE IF extras # {}
           THEN /\ error' = "ValueError"
                /\ pc' = "to_csv_raised"
                /\ UNCHANGED <<pos, csv_file>>
           ELSE /\ csv_file' = Append(csv_file, RowCells(Fieldnames, c.row))
                /\ pos' = pos + 1
                /\ UNCHANGED <<pc, error>>
    /\ UNCHANGED <<mainVars, tool, workers, pools, fetchVars, summaryVars, convVars,
                   csv_set, headers, header_set, flat_configs, output_flat_configs,
                   out_headers, flatVars>>

\* The row loop ends and to_csv returns
CsvReturn ==
    /\ pc = "to_csv_rows"
    /\ pos > Len(RowSource)
    /\ pc' = "to_csv_done"
    /\ UNCHANGED <<mainVars, tool, pos, error, workers, pools, fetchVars, summaryVars,
                   convVars, csvVars, flatVars>>

-----------------------------------------------------------------------------
(* to_csv (pool-level script): the flattened rows and the CSV view *)

\* CSV_SET["amis"]["columns"]
AmisColumns ==
    << "workerPoolId", "providerId", "created", "lastModified", "owner",
       "lc_launchConfig_ImageId", "lc_region",
       "lc_disks_0_initializeParams_sourceImage" >>

\* dict.pop(key, default): the dict without the key
Without(d, key) == SelectSeq(d, LAMBDA item : item[1] # key)

\* a |= b: a key of a keeps its place and takes b's value, a new key is appended
RECURSIVE Merge(_, _)
Merge(a, b) ==
    IF b = <<>> THEN a
    ELSE Merge(IF HasKey(a, b[1][1])
               THEN [n \in 1..Len(a) |-> IF a[n][1] = b[1][1] THEN b[1] ELSE a[n]]
               ELSE Append(a, b[1]),
               Tail(b))

\* for config in launch_configs: ...
RECURSIVE AddLaunchConfigs(_, _, _)
AddLaunchConfigs(acc, flat_pool, launch_configs) ==
    IF launch_configs = <<>> \/ acc.error # None THEN acc
    ELSE LET lc == FlattenConfig(launch_configs[1].v, "lc", TRUE)
             flat_config == Merge(flat_pool, lc.ret)
             hs == AddKeys([headers |-> acc.headers, header_set |-> acc.header_set],
                           Keys(flat_config))
         IN  AddLaunchConfigs(
                 IF lc.error # None THEN [acc EXCEPT !.error = lc.error]
                 ELSE [error |-> None,
                       flat_configs |-> Append(acc.flat_configs, flat_config),
                       headers |-> hs.headers,
                       header_set |-> hs.header_set],
                 flat_pool, Tail(launch_configs))

\* One pass of `for pool in pools`
CsvFlattenPool ==
    /\ tool = Types
    /\ pc = "to_csv"
    /\ pos <= Len(pools)
    /\ LET fp == FlattenConfig(pools[pos], "", FALSE)
           launch_configs == Get(fp.ret, "config_launchConfigs", List(<<>>)).v
           flat_pool == Without(fp.ret, "config_launchConfigs")
           acc == AddLaunchConfigs([error |-> None, flat_configs |-> flat_configs,
                                    headers |-> headers, header_set |-> header_set],
                                   flat_pool, launch_configs)
       IN  IF fp.error # None
           THEN /\ error' = fp.error
                /\ pc' = "to_csv_raised"
                /\ UNCHANGED <<pos, flat_configs, headers, header_set>>
           ELSE IF acc.error # None
           THEN /\ error' = acc.error
                /\ pc' = "to_csv_raised"
                /\ UNCHANGED <<pos, flat_configs, headers, header_set>>
           ELSE /\ flat_configs' = acc.flat_configs
                /\ headers' = acc.headers
                /\ header_set' = acc.header_set
                /\ pos' = pos + 1
                /\ UNCHANGED <<pc, error>>
    /\ UNCHANGED <<mainVars, tool, workers, pools, fetchVars, summaryVars, convVars,
                   csv_set, output_flat_configs, out_headers, csv_file, flatVars>>

\* out_key = tuple(flat_config.get(key, '') for key in columns)
OutKey(flat_config, columns) ==
    [n \in 1..Len(columns) |-> Get(flat_config, columns[n], Str(""))]

\* a < b of two tuples of str: the first position where they differ decides
TupleLess(a, b) ==
    \E n \in 1..Len(a) :
        /\ \A m \in 1..(n - 1) : a[m] = b[m]
        /\ StrLess(a[n].v, b[n].v)

\* sorted(counts.keys())
SortedTuples(S) ==
    [r \in 1..Cardinality(S) |->
        CHOOSE k \in S : Cardinality({j \in S : TupleLess(j, k)}) = r - 1]

\* counts[row]
CountOf(row, rows, columns) ==
    Cardinality({n \in 1..Len(rows) : OutKey(rows[n], columns) = row})

\* A slip: the groups come in the order they were first counted, not sorted
RECURSIVE FirstCounted(_, _, _)
FirstCounted(rows, columns, seen) ==
    IF rows = <<>> THEN <<>>
    ELSE LET k == OutKey(rows[1], columns)
         IN  IF k \in seen THEN FirstCounted(Tail(rows), columns, seen)
             ELSE <<k>> \o FirstCounted(Tail(rows), columns, seen \cup {k})

ViewRowsUnsorted(rows, columns) ==
    LET order == FirstCounted(rows, columns, {})
    IN  [r \in 1..Len(order) |->
            [n \in 1..Len(columns) |-> <<columns[n], order[r][n]>>]
              \o << <<"launch_config_count", IntVal(CountOf(order[r], rows, columns))>> >>]

\* output_flat_configs of a CSV view: one dict(zip(columns, row)) with its
\* launch_config_count per counted tuple, in sorted order
ViewRows(rows, columns) ==
    LET order == SortedTuples({OutKey(rows[n], columns) : n \in 1..Len(rows)})
    IN  [r \in 1..Len(order) |->
            [n \in 1..Len(columns) |-> <<columns[n], order[r][n]>>]
              \o << <<"launch_config_count", IntVal(CountOf(order[r], rows, columns))>> >>]

\* After the pools: pick the view's rows if one is asked for, write the header
CsvSelect ==
    /\ tool = Types
    /\ pc = "to_csv"
    /\ pos > Len(pools)
    /\ IF Truthy(csv_set)
       THEN /\ output_flat_configs' = ViewRows(flat_configs, AmisColumns)
            /\ out_headers' = Append(AmisColumns, "launch_config_count")
       ELSE /\ output_flat_configs' = flat_configs
            /\ out_headers' = headers
    /\ csv_file' = <<out_headers'>>
    /\ pos' = 1
    /\ pc' = "to_csv_rows"
    /\ UNCHANGED <<mainVars, tool, error, workers, pools, fetchVars, summaryVars, convVars,
                   csv_set, headers, header_set, flat_configs, flatVars>>

-----------------------------------------------------------------------------
(* to_csv: the inputs *)

\* Bound: the longest list of workers or pools exported
MaxCsvRecords == 2

GoodDate == Str("2021-03-05T14:22:09.500Z")
NoFractionDate == Str("2021-03-05T14:22:09Z")
MalformedDate == Str("2021-13-99Txx:00:00Z")
Hour24Date == Str("2021-03-05T24:22:09.500Z")

CsvWorkers ==
    { << <<"workerId", Str("w1")>>, <<"created", GoodDate>> >>,
      << <<"created", GoodDate>>, <<"workerId", Str("w2")>> >>,
      << <<"workerId", Str("w3")>>, <<"state", Str("running")>> >>,
      << <<"workerId", Str("w4")>>, <<"created", NoFractionDate>> >>,
      << <<"workerId", Str("w5")>>, <<"expires", MalformedDate>> >>,
      << <<"workerId", Str("w6")>>, <<"lastChecked", Hour24Date>> >>,
      <<>> }

LcUs == Dict(<< <<"region", Str("us")>>,
                <<"launchConfig", Dict(<< <<"ImageId", Str("ami-1")>> >>)>> >>)
LcUsLarge == Dict(<< <<"region", Str("us")>>,
                     <<"launchConfig", Dict(<< <<"ImageId", Str("ami-1")>> >>)>>,
                     <<"capacityPerInstance", Str("2")>> >>)
LcEu == Dict(<< <<"region", Str("eu")>>,
                <<"disks", List(<< Dict(<< <<"initializeParams",
                      Dict(<< <<"sourceImage", Str("img")>> >>)>> >>) >>)>> >>)

CsvPools ==
    { << <<"workerPoolId", Str("b/pool")>>, <<"providerId", Str("aws")>>,
         <<"created", GoodDate>>, <<"lastModified", GoodDate>>,
         <<"owner", Str("o")>>,
         <<"config", Dict(<< <<"launchConfigs", List(<<LcUs, LcUsLarge>>)>>,
                             <<"maxCapacity", Str("5")>> >>)>> >>,
      << <<"workerPoolId", Str("a/pool")>>, <<"providerId", Str("gcp")>>,
         <<"created", GoodDate>>, <<"lastModified", GoodDate>>,
         <<"config", Dict(<< <<"launchConfigs", List(<<LcEu>>)>> >>)>> >>,
      << <<"workerPoolId", Str("c/pool")>>, <<"created", GoodDate>>,
         <<"lastModified", GoodDate>>, <<"emailOnError", Str("no")>>,
         <<"config", Dict(<< <<"launchConfigs", List(<<>>)>> >>)>> >>,
      << <<"workerPoolId", Str("d/pool")>>, <<"lastModified", GoodDate>>,
         <<"config", Dict(<< <<"launchConfigs", List(<<LcUs>>)>> >>)>> >>,
      << <<"workerPoolId", Str("e/pool")>>, <<"created", MalformedDate>>,
         <<"lastModified", GoodDate>>,
         <<"config", Dict(<< <<"launchConfigs", List(<<LcUs>>)>> >>)>> >>,
      << <<"workerPoolId", Str("f/pool")>>, <<"created", NoFractionDate>>,
         <<"lastModified", GoodDate>>,
         <<"config", Dict(<< <<"launchConfigs", List(<<LcEu>>)>> >>)>> >>,
      << <<"workerPoolId", Str("g/pool")>>,
         <<"config", Dict(<< <<"launchConfigs", List(<<LcUs>>)>>,
                             <<"a", Dict(<< <<"b", Str("x")>> >>)>>,
                             <<"a_b", Str("y")>> >>)>> >> }

-----------------------------------------------------------------------------
(* worker_summary: the inputs *)

\* Bound: the longest list of workers
MaxWorkers == 3

WorkerStates == {"running", "pending"}
WorkerCapacities == {2}

\* A capacity of nine digits
LargeCapacity == 100000000

\* A worker dict may lack 'state' and may lack 'capacity'.
StateOptions == {<<>>} \cup {<< <<"state", Str(s)>> >> : s \in WorkerStates}
CapacityOptions == {<<>>} \cup {<< <<"capacity", IntVal(c)>> >> : c \in WorkerCapacities}

\* The fields of a worker that make its group
Worker(pool_id, group, provider_id) ==
    << <<"workerPoolId", Str(pool_id)>>, <<"workerGroup", Str(group)>>,
       <<"providerId", Str(provider_id)>> >>

\* Workers of the first pool in every state and without one, with and without
\* a capacity; workers of a second pool, and of a second group and a second
\* provider of the first pool
SummaryWorkers ==
    { Worker("p1", "g", "aws") \o st \o cap :
        st \in StateOptions, cap \in CapacityOptions }
    \cup { Worker("p2", "g", "aws") \o << <<"state", Str(s)>> >> : s \in WorkerStates }
    \cup { Worker("p1", "g", "aws")
               \o << <<"state", Str("running")>>, <<"capacity", IntVal(LargeCapacity)>> >>,
           Worker("p1", "h", "aws") \o << <<"state", Str("running")>> >>,
           Worker("p1", "g", "gcp") \o << <<"state", Str("running")>> >> }

-----------------------------------------------------------------------------
(* worker_summary *)

\* The key of a worker: (pool_id, group, provider_id, state)
WorkerKey(worker) ==
    << Get(worker, "workerPoolId", Str("")).v, Get(worker, "workerGroup", Str("")).v,
       Get(worker, "providerId", Str("")).v, Get(worker, "state", Str("")).v >>

\* capacity = int(worker.get('capacity', 1))
WorkerCapacity(worker) == Get(worker, "capacity", IntVal(1)).v

\* What one worker adds to state_capacity_counts[state]
StateCapacityIncrement(capacity) == 1

\* Mutant of KeyLess: the plain key k, the state compared as a string
KeyLessAlphabetical(a, b, order) ==
    \/ StrLess(a[1], b[1])
    \/ a[1] = b[1] /\ StrLess(a[2], b[2])
    \/ a[1] = b[1] /\ a[2] = b[2] /\ StrLess(a[3], b[3])
    \/ a[1] = b[1] /\ a[2] = b[2] /\ a[3] = b[3] /\ StrLess(a[4], b[4])

\* The sort key (k[0], k[1], k[2], state_order.index(k[3])), compared as tuples
KeyLess(a, b, order) ==
    \/ StrLess(a[1], b[1])
    \/ a[1] = b[1] /\ StrLess(a[2], b[2])
    \/ a[1] = b[1] /\ a[2] = b[2] /\ StrLess(a[3], b[3])
    \/ a[1] = b[1] /\ a[2] = b[2] /\ a[3] = b[3]
         /\ Index(order, a[4]) < Index(order, b[4])

\* sorted(key_set, key=...)
SortedKeys(S, order) ==
    [r \in 1..Cardinality(S) |->
        CHOOSE k \in S : Cardinality({j \in S : KeyLess(j, k, order)}) = r - 1]

\* One pass of the loop `for worker in workers`
SummaryStep ==
    /\ pc = "summary"
    /\ pos <= Len(workers)
    /\ LET worker == workers[pos]
           state == Get(worker, "state", Str("")).v
           capacity == WorkerCapacity(worker)
           key == WorkerKey(worker)
       IN  /\ key_set' = key_set \cup {key}
           /\ key_worker_counts' = Incr(key_worker_counts, key, 1)
           /\ key_capacity_counts' = Incr(key_capacity_counts, key, capacity)
           /\ state_worker_counts' = Incr(state_worker_counts, state, 1)
           /\ state_capacity_counts' =
                  Incr(state_capacity_counts, state, StateCapacityIncrement(capacity))
           /\ IF state \notin known_states
              THEN /\ state_order' = Append(state_order, state)
                   /\ known_states' = known_states \cup {state}
              ELSE UNCHANGED <<state_order, known_states>>
    /\ pos' = pos + 1
    /\ error' = error
    /\ UNCHANGED <<mainVars, tool, pc, workers, pools, fetchVars, keys, state_rows, width, output,
                   convVars, csvVars, flatVars>>

\* The padding of the widest cell
Blanks == "                                        "

\* n spaces
Spaces(n) == SubSeq(Blanks, 1, n)

\* f"{s:<{w}}" for a str: padded on the right to w, never cut
LeftAlign(s, w) == IF Len(s) >= w THEN s ELSE s \o Spaces(w - Len(s))

\* f"{s:>{w}}": padded on the left to w, never cut
RightAlign(s, w) == IF Len(s) >= w THEN s ELSE Spaces(w - Len(s)) \o s

\* The titles of the group table and of the per-state table
GroupTitles == <<"Pool ID", "Group ID", "Provider ID", "State", "Workers", "Capacity">>
StateTitles == <<"State", "Workers", "Capacity">>

\* max(len(title), max(len(key[index]) for key in keys))
KeyLen(title, index, ks) == Max({Len(title)} \cup {Len(k[index]) : k \in ks})

\* state_len: the current script takes the longest of known_states, the
\* earlier one the longest of 'State' and the states of the keys
StateLen(t, ks, known) ==
    IF t = StatsOld THEN KeyLen("State", 4, ks)
    ELSE Max({Len(state) : state \in known})

\* The six widths
SummaryWidths(t, ks, known) ==
    [ pool_id_len  |-> KeyLen("Pool ID", 1, ks),
      group_len    |-> KeyLen("Group ID", 2, ks),
      provider_len |-> KeyLen("Provider ID", 3, ks),
      state_len    |-> StateLen(t, ks, known),
      workers_len  |-> Len("Workers"),
      capacity_len |-> Len("Capacity") ]

\* One line of the group table
GroupLine(w, cells) ==
    << LeftAlign(cells[1], w.pool_id_len), LeftAlign(cells[2], w.group_len),
       LeftAlign(cells[3], w.provider_len), LeftAlign(cells[4], w.state_len),
       LeftAlign(cells[5], w.workers_len), LeftAlign(cells[6], w.capacity_len) >>

\* One line of the per-state table
StateLine(w, cells) ==
    << LeftAlign(cells[1], w.state_len), LeftAlign(cells[2], w.workers_len),
       LeftAlign(cells[3], w.capacity_len) >>

\* The lines of worker_summary's output
SummaryOutput(w, ks, rows, kwc, kcc) ==
    << GroupLine(w, GroupTitles) >>
    \o [n \in 1..Len(ks) |->
           GroupLine(w, ks[n] \o << ToString(Count(kwc, ks[n])),
                                    ToString(Count(kcc, ks[n])) >>)]
    \o << <<"">>, <<"">> >>
    \o << StateLine(w, StateTitles) >>
    \o [n \in 1..Len(rows) |->
           StateLine(w, << rows[n][1], ToString(rows[n][2]), ToString(rows[n][3]) >>)]

\* After the loop: sort the keys and build the two tables.  With no key,
\* max() of an empty sequence raises ValueError.
SummaryRender ==
    /\ pc = "summary"
    /\ pos > Len(workers)
    /\ IF key_set = {}
       THEN /\ pc' = "summary_raised"
            /\ error' = "ValueError"
            /\ UNCHANGED <<keys, state_rows, width, output>>
       ELSE LET ks == SortedKeys(key_set, state_order)
                w == SummaryWidths(tool, key_set, known_states)
                rows == [n \in 1..Len(state_order) |->
                            << state_order[n],
                               Count(state_worker_counts, state_order[n]),
                               Count(state_capacity_counts, state_order[n]) >>]
            IN  /\ pc' = "summary_done"
                /\ error' = error
                /\ keys' = ks
                /\ state_rows' = rows
                /\ width' = w
                /\ output' = SummaryOutput(w, ks, rows, key_worker_counts,
                                           key_capacity_counts)
    /\ UNCHANGED <<mainVars, tool, pos, workers, pools, fetchVars, convVars, csvVars, flatVars,
                   key_set, key_worker_counts, key_capacity_counts,
                   state_worker_counts, state_capacity_counts,
                   state_order, known_states>>

-----------------------------------------------------------------------------
(* worker_pool_summary *)

\* Bound: the longest list of pools summarised
MaxPools == 3

\* Pools as the Worker Manager lists them; the second differs from the first
\* in currentCapacity only, the third has none of the optional fields
SummaryPools ==
    { << <<"workerPoolId", Str("a/pool")>>, <<"providerId", Str("aws")>>,
         <<"currentCapacity", IntVal(3)>>, <<"owner", Str("o")>>,
         <<"config", Dict(<< <<"minCapacity", IntVal(0)>>,
                             <<"maxCapacity", IntVal(10)>>,
                             <<"launchConfigs", List(<<LcUs>>)>> >>)>> >>,
      << <<"workerPoolId", Str("a/pool")>>, <<"providerId", Str("aws")>>,
         <<"currentCapacity", IntVal(12)>>, <<"owner", Str("o")>>,
         <<"config", Dict(<< <<"minCapacity", IntVal(0)>>,
                             <<"maxCapacity", IntVal(10)>>,
                             <<"launchConfigs", List(<<LcUs>>)>> >>)>> >>,
      << <<"workerPoolId", Str("b")>> >>,
      << <<"workerPoolId", Str("proj-long/worker-pool")>>,
         <<"providerId", Str("gcp")>>, <<"currentCapacity", IntVal(123456789)>>,
         <<"owner", Str("someone@example.com")>>,
         <<"config", Dict(<< <<"minCapacity", IntVal(1)>>,
                             <<"maxCapacity", IntVal(1000000000)>>,
                             <<"launchConfigs", List(<<LcUs, LcEu>>)>> >>)>> >>,
      << <<"workerPoolId", Str("Z/pool")>>, <<"providerId", Str("static")>>,
         <<"owner", Str("o")>>, <<"config", Dict(<<>>)>> >> }

\* str(x)
ToStr(x) == IF x.t = "int" THEN ToString(x.v) ELSE x.v

\* The key of a pool: (pool_id, provider_id, capacity, min_capacity,
\* max_capacity, owner, launch_configs_count)
PoolKey(pool) ==
    LET config == Get(pool, "config", Dict(<<>>)).v
    IN  << Get(pool, "workerPoolId", Str("")),
           Get(pool, "providerId", Str("")),
           Get(pool, "currentCapacity", IntVal(0)),
           Get(config, "minCapacity", Str("")),
           Get(config, "maxCapacity", Str("")),
           Get(pool, "owner", Str("")),
           IntVal(Len(Get(config, "launchConfigs", List(<<>>)).v)) >>

\* x < y for two str or two int
ValueLess(x, y) == IF x.t = "int" THEN x.v < y.v ELSE StrLess(x.v, y.v)

\* a < b for tuples: decided at the first position where they differ
PoolKeyLess(a, b) ==
    \E n \in 1..Len(a) :
        /\ \A m \in 1..(n - 1) : a[m] = b[m]
        /\ a[n] # b[n]
        /\ ValueLess(a[n], b[n])

\* sorted(key_set)
SortedPoolKeys(S) ==
    [r \in 1..Cardinality(S) |->
        CHOOSE k \in S : Cardinality({j \in S : PoolKeyLess(j, k)}) = r - 1]

\* titles
PoolTitles == <<"Pool ID", "Provider ID", "Capacity", "Min Cap", "Max Cap", "Owner",
                "Launch Configs">>

\* The columns formatted with '>'; the others are formatted with '<'
RightAligned == {"Capacity", "Min Cap", "Max Cap", "Launch Configs"}

\* width = {title: max(len(title), max(len(str(key[index])) for key in keys))}
PoolWidths(ks) ==
    [title \in {PoolTitles[n] : n \in 1..Len(PoolTitles)} |->
        Max({Len(title)} \cup {Len(ToStr(k[Index(PoolTitles, title)])) : k \in ks})]

\* The lines of worker_pool_summary's output
PoolSummaryOutput(w, ks, count) ==
    << [n \in 1..Len(PoolTitles) |-> LeftAlign(PoolTitles[n], w[PoolTitles[n]])] >>
    \o [r \in 1..Len(ks) |->
           [n \in 1..Len(PoolTitles) |->
               IF PoolTitles[n] \in RightAligned
               THEN RightAlign(ToStr(ks[r][n]), w[PoolTitles[n]])
               ELSE LeftAlign(ToStr(ks[r][n]), w[PoolTitles[n]])]]
    \o << <<"">>, <<"">>, <<"Worker Pools: " \o ToString(count)>> >>

\* One pass of the loop `for pool in pools`
PoolSummaryStep ==
    /\ pc = "pool_summary"
    /\ pos <= Len(pools)
    /\ key_set' = key_set \cup {PoolKey(pools[pos])}
    /\ pos' = pos + 1
    /\ UNCHANGED <<mainVars, tool, pc, error, workers, pools, fetchVars, convVars, csvVars,
                   flatVars, key_worker_counts, key_capacity_counts,
                   state_worker_counts, state_capacity_counts, state_order,
                   known_states, keys, state_rows, width, output>>

\* After the loop: sort the keys and build the table.  With no key, max() of
\* an empty sequence raises ValueError.
PoolSummaryRender ==
    /\ pc = "pool_summary"
    /\ pos > Len(pools)
    /\ IF key_set = {}
       THEN /\ pc' = "pool_summary_raised"
            /\ error' = "ValueError"
            /\ UNCHANGED <<keys, width, output>>
       ELSE LET ks == SortedPoolKeys(key_set)
                w == PoolWidths(key_set)
            IN  /\ pc' = "pool_summary_done"
                /\ error' = error
                /\ keys' = ks
                /\ width' = w
                /\ output' = PoolSummaryOutput(w, ks, Len(pools))
    /\ UNCHANGED <<mainVars, tool, pos, workers, pools, fetchVars, convVars, csvVars, flatVars,
                   key_set, key_worker_counts, key_capacity_counts,
                   state_worker_counts, state_capacity_counts, state_order,
                   known_states, state_rows>>

-----------------------------------------------------------------------------
(* __main__ and main: the inputs *)

\* Bound: the longest list of workers or pools a run handles
MaxMainRecords == 2

\* None as the value of an option that may also hold an int
NoneVal == [t |-> "NoneType", v |-> None]

\* taskcluster.optionsFromEnvironment(): {} without TASKCLUSTER_ROOT_URL
AuthOptions == { <<>>, << <<"rootUrl", Str("https://tc.example.com")>> >> }

\* A worker that exports and one whose 'expires' to_csv cannot convert
MainWorkers ==
    { Worker("p1", "g", "aws") \o << <<"state", Str("running")>>, <<"created", GoodDate>> >>,
      Worker("p1", "g", "aws") \o << <<"state", Str("pending")>>, <<"expires", MalformedDate>> >> }

\* A pool that exports and one whose 'created' to_csv cannot convert
MainPools ==
    { p \in CsvPools :
        Get(p, "workerPoolId", Str("")) \in {Str("a/pool"), Str("e/pool")} }

\* The records a run of the tool handles
MainRecords(t) == IF t = Types THEN MainPools ELSE MainWorkers

\* The command lines: every option present or absent.  The earlier worker
\* script has no --full-datetimes, only the pool script has --csv-set and
\* no pool_id.
CommandLines(t) ==
    [ pool_id        : IF t = Types THEN {None} ELSE {None, "p1"},
      csv_file       : {None, "out.csv"},
      json_file      : {None, "out.json"},
      from_json_file : {None, "in.json"},
      verbose        : {NoneVal, IntVal(1)},
      full_datetimes : IF t = StatsOld THEN {FALSE} ELSE BOOLEAN,
      csv_set        : IF t = Types THEN {None, "amis"} ELSE {None} ]

\* The Worker Manager's listing of the records: one record a page, every
\* page but the last with a continuation token
ListingOf(t, records) ==
    IF records = <<>> THEN << << <<ItemsKey(t), <<>>>> >> >>
    ELSE [k \in 1..Len(records) |->
             << <<ItemsKey(t), <<records[k]>>>> >>
               \o (IF k < Len(records)
                   THEN << <<"continuationToken", TokenOf(k)>> >> ELSE <<>>)]

-----------------------------------------------------------------------------
(* __main__: the entry point *)

\* The process ends with an exit status
Exit(status) ==
    /\ retcode' = status
    /\ pc' = "exited"

\* `not auth_options and not args.from_json_file`
NoAuth == auth_options = <<>> /\ ~Truthy(args.from_json_file)

\* `not args.pool_id and not args.from_json_file`
NoPoolId == ~Truthy(args.pool_id) /\ ~Truthy(args.from_json_file)

\* parser.parse_args() of the earlier worker script, where pool_id is
\* required: argparse prints the usage to stderr and exits with status 2
EntryUsage ==
    /\ pc = "__main__"
    /\ tool = StatsOld
    /\ ~Truthy(args.pool_id)
    /\ Exit(2)
    /\ UNCHANGED <<tool, pos, error, workers, pools, fetchVars, summaryVars, convVars,
                   csvVars, flatVars, auth_options, args, source, api, opened, dumped,
                   stdout>>

\* No auth options and no --from-json-file: print the hint, sys.exit(1)
EntryNoAuth ==
    /\ pc = "__main__"
    /\ tool \in {Stats, Types}
    /\ NoAuth
    /\ stdout' = Append(stdout, <<"TASKCLUSTER_ROOT_URL not in environment, see README.md">>)
    /\ Exit(1)
    /\ UNCHANGED <<tool, pos, error, workers, pools, fetchVars, summaryVars, convVars,
                   csvVars, flatVars, auth_options, args, source, api, opened, dumped>>

\* No pool_id and no --from-json-file: parser.error(...), which prints the
\* usage and the message to stderr and exits with status 2
EntryNoPoolId ==
    /\ pc = "__main__"
    /\ tool = Stats
    /\ ~NoAuth
    /\ NoPoolId
    /\ Exit(2)
    /\ UNCHANGED <<tool, pos, error, workers, pools, fetchVars, summaryVars, convVars,
                   csvVars, flatVars, auth_options, args, source, api, opened, dumped,
                   stdout>>

\* `if args.verbose >= 2` of the earlier worker script: without -v,
\* args.verbose is None and the comparison raises TypeError
EntryVerbose ==
    /\ pc = "__main__"
    /\ tool = StatsOld
    /\ Truthy(args.pool_id)
    /\ args.verbose = NoneVal
    /\ pc' = "__main___raised"
    /\ error' = "TypeError"
    /\ UNCHANGED <<tool, pos, workers, pools, fetchVars, summaryVars, convVars,
                   csvVars, flatVars, mainVars>>

\* retcode = main(auth_options, ...)
EntryCallMain ==
    /\ pc = "__main__"
    /\ CASE tool = Stats -> ~NoAuth /\ ~NoPoolId
         [] tool = Types -> ~NoAuth
         [] tool = StatsOld -> Truthy(args.pool_id) /\ args.verbose # NoneVal
    /\ pc' = "main"
    /\ UNCHANGED <<tool, pos, error, workers, pools, fetchVars, summaryVars, convVars,
                   csvVars, flatVars, mainVars>>

-----------------------------------------------------------------------------
(* main *)

\* The records main holds
Records == IF tool = Types THEN pools ELSE workers

\* if from_json_file: workers (pools) = json.load(the_file)
MainLoad ==
    /\ pc = "main"
    /\ Truthy(args.from_json_file)
    /\ IF tool = Types
       THEN pools' = source /\ UNCHANGED workers
       ELSE workers' = source /\ UNCHANGED pools
    /\ pc' = "main_loaded"
    /\ UNCHANGED <<tool, pos, error, fetchVars, summaryVars, convVars, csvVars,
                   flatVars, mainVars>>

\* else: the client is made and pinged, the worker scripts ask for the pool,
\* and the collector is called
MainConnect ==
    /\ pc = "main"
    /\ ~Truthy(args.from_json_file)
    /\ api' = api \o (IF tool = Types THEN <<"WorkerManager", "ping">>
                      ELSE <<"WorkerManager", "ping", "workerPool">>)
    /\ pc' = IF tool = Types THEN "get_worker_pools" ELSE "get_pool_workers"
    /\ UNCHANGED <<tool, pos, error, workers, pools, fetchVars, summaryVars, convVars,
                   csvVars, flatVars, auth_options, args, source, opened, dumped,
                   stdout, retcode>>

\* The earlier worker script gets here without auth options.  What the
\* client does without a root URL is the library's affair: it may work as
\* above, or raise when it is made.
MainConnectFails ==
    /\ pc = "main"
    /\ ~Truthy(args.from_json_file)
    /\ auth_options = <<>>
    /\ api' = Append(api, "WorkerManager")
    /\ pc' = "main_raised"
    /\ error' = "TaskclusterFailure"
    /\ UNCHANGED <<tool, pos, workers, pools, fetchVars, summaryVars, convVars,
                   csvVars, flatVars, auth_options, args, source, opened, dumped,
                   stdout, retcode>>

\* workers = get_pool_workers(...) / pools = get_worker_pools(...) returns
MainFetched ==
    /\ pc \in {"get_pool_workers_done", "get_worker_pools_done"}
    /\ pc' = "main_loaded"
    /\ UNCHANGED <<tool, pos, error, workers, pools, fetchVars, summaryVars, convVars,
                   csvVars, flatVars, mainVars>>

\* if csv_file: open(csv_file, 'w', newline='') and the call of to_csv
MainOpenCsv ==
    /\ pc = "main_loaded"
    /\ Truthy(args.csv_file)
    /\ opened' = opened \cup {args.csv_file}
    /\ full_csv_datetimes' = args.full_datetimes
    /\ csv_set' = args.csv_set
    /\ pos' = 1
    /\ pc' = "to_csv"
    /\ UNCHANGED <<tool, error, workers, pools, fetchVars, summaryVars, raw_value,
                   value, headers, header_set, flat_configs, output_flat_configs,
                   out_headers, csv_file, flatVars, auth_options, args, source, api,
                   dumped, stdout, retcode>>

\* No --csv-file: on to the JSON file
MainSkipCsv ==
    /\ pc = "main_loaded"
    /\ ~Truthy(args.csv_file)
    /\ pc' = "main_json"
    /\ UNCHANGED <<tool, pos, error, workers, pools, fetchVars, summaryVars, convVars,
                   csvVars, flatVars, mainVars>>

\* to_csv returns and the CSV file is closed
MainCsvWritten ==
    /\ pc = "to_csv_done"
    /\ pc' = "main_json"
    /\ UNCHANGED <<tool, pos, error, workers, pools, fetchVars, summaryVars, convVars,
                   csvVars, flatVars, mainVars>>

\* if json_file: json.dump(workers, the_file); then the summary is called
MainJson ==
    /\ pc = "main_json"
    /\ IF Truthy(args.json_file)
       THEN /\ opened' = opened \cup {args.json_file}
            /\ dumped' = Append(dumped, Records)
       ELSE UNCHANGED <<opened, dumped>>
    /\ pos' = 1
    /\ pc' = IF tool = Types THEN "pool_summary" ELSE "summary"
    /\ UNCHANGED <<tool, error, workers, pools, fetchVars, summaryVars, convVars,
                   csvVars, flatVars, auth_options, args, source, api, stdout, retcode>>

\* print(worker_summary(workers)); return 0; sys.exit(retcode)
MainPrint ==
    /\ pc \in {"summary_done", "pool_summary_done"}
    /\ stdout' = Append(stdout, output)
    /\ Exit(0)
    /\ UNCHANGED <<tool, pos, error, workers, pools, fetchVars, summaryVars, convVars,
                   csvVars, flatVars, auth_options, args, source, api, opened, dumped>>

\* The positions an exception leaves the run at
Raised == {"__main___raised", "main_raised", "get_worker_pools_raised",
           "to_csv_raised", "summary_raised", "pool_summary_raised"}

\* A mutant of MainRaised: the exception is swallowed and main goes on with
\* the JSON file
MainRaisedGoesOn ==
    /\ pc \in Raised
    /\ pc' = "main_json"
    /\ UNCHANGED <<tool, pos, error, workers, pools, fetchVars, summaryVars, convVars,
                   csvVars, flatVars, mainVars>>

\* No statement catches an exception: it leaves main and the module, the
\* interpreter prints the traceback to stderr and exits with status 1
MainRaised ==
    /\ pc \in Raised
    /\ Exit(1)
    /\ UNCHANGED <<tool, pos, error, workers, pools, fetchVars, summaryVars, convVars,
                   csvVars, flatVars, auth_options, args, source, api, opened, dumped,
                   stdout>>

-----------------------------------------------------------------------------
(* Specifications *)

\* The collectors' variables before any call
FetchIdle ==
    /\ pages = <<>>
    /\ calls = <<>>
    /\ page = <<>>
    /\ token = None
    /\ page_count = 0

\* worker_summary's locals before the loop
SummaryInit ==
    /\ key_set = {}
    /\ key_worker_counts = <<>>
    /\ key_capacity_counts = <<>>
    /\ state_worker_counts = <<>>
    /\ state_capacity_counts = <<>>
    /\ state_order = <<"requested", "running", "stopping", "stopped">>
    /\ known_states = {"requested", "running", "stopping", "stopped"}
    /\ keys = <<>>
    /\ state_rows = <<>>
    /\ width = <<>>
    /\ output = <<>>

\* to_csv's and the normalizer's variables before they run
CsvIdle ==
    /\ full_csv_datetimes = FALSE
    /\ raw_value = None
    /\ value = None
    /\ csv_set = None
    /\ headers = <<>>
    /\ header_set = {}
    /\ flat_configs = <<>>
    /\ output_flat_configs = <<>>
    /\ out_headers = <<>>
    /\ csv_file = <<>>

\* flatten_config's variables before it runs
FlattenIdle ==
    /\ config_dict = <<>>
    /\ prefix = ""
    /\ suffix = FALSE
    /\ ret = <<>>

\* The variables of the entry point and of main when a function is called
\* on its own
MainIdle ==
    /\ auth_options = <<>>
    /\ args = <<>>
    /\ source = <<>>
    /\ api = <<>>
    /\ opened = {}
    /\ dumped = <<>>
    /\ stdout = <<>>
    /\ retcode = None

InitPages ==
    /\ tool \in {Stats, StatsOld, Types}
    /\ pc = IF tool = Types THEN "get_worker_pools" ELSE "get_pool_workers"
    /\ pos = 1
    /\ workers = <<>>
    /\ pools = <<>>
    /\ pages \in UNION {Listings(tool, n) : n \in 1..MaxPages}
    /\ calls = <<>>
    /\ page = <<>>
    /\ token = None
    /\ page_count = 0
    /\ error = None
    /\ SummaryInit
    /\ CsvIdle
    /\ FlattenIdle
    /\ MainIdle

NextPages ==
    \/ GetPoolWorkersFirst
    \/ GetPoolWorkersNext
    \/ GetPoolWorkersReturn
    \/ GetWorkerPoolsFirst
    \/ GetWorkerPoolsNext
    \/ GetWorkerPoolsReturn

SpecPages == InitPages /\ [][NextPages]_vars

InitSummary ==
    /\ tool \in {Stats, StatsOld}
    /\ pc = "summary"
    /\ pos = 1
    /\ workers \in SeqUpTo(SummaryWorkers, MaxWorkers)
    /\ pools = <<>>
    /\ error = None
    /\ FetchIdle
    /\ SummaryInit
    /\ CsvIdle
    /\ FlattenIdle
    /\ MainIdle

NextSummary == SummaryStep \/ SummaryRender

SpecSummary == InitSummary /\ [][NextSummary]_vars

\* worker_pool_summary on a list of pools
InitPoolSummary ==
    /\ tool = Types
    /\ pc = "pool_summary"
    /\ pos = 1
    /\ workers = <<>>
    /\ pools \in SeqUpTo(SummaryPools, MaxPools)
    /\ error = None
    /\ FetchIdle
    /\ SummaryInit
    /\ CsvIdle
    /\ FlattenIdle
    /\ MainIdle

NextPoolSummary == PoolSummaryStep \/ PoolSummaryRender

SpecPoolSummary == InitPoolSummary /\ [][NextPoolSummary]_vars

\* A run of one of the three scripts from its entry point
InitMain ==
    /\ tool \in {Stats, StatsOld, Types}
    /\ pc = "__main__"
    /\ pos = 1
    /\ error = None
    /\ workers = <<>>
    /\ pools = <<>>
    /\ auth_options \in AuthOptions
    /\ args \in CommandLines(tool)
    /\ \E records \in SeqUpTo(MainRecords(tool), MaxMainRecords) :
           IF Truthy(args.from_json_file)
           THEN source = records /\ pages = <<>>
           ELSE source = <<>> /\ pages = ListingOf(tool, records)
    /\ calls = <<>>
    /\ page = <<>>
    /\ token = None
    /\ page_count = 0
    /\ SummaryInit
    /\ CsvIdle
    /\ FlattenIdle
    /\ api = <<>>
    /\ opened = {}
    /\ dumped = <<>>
    /\ stdout = <<>>
    /\ retcode = None

NextMain ==
    \/ EntryUsage
    \/ EntryNoAuth
    \/ EntryNoPoolId
    \/ EntryVerbose
    \/ EntryCallMain
    \/ MainLoad
    \/ MainConnect
    \/ MainConnectFails
    \/ GetPoolWorkersFirst
    \/ GetPoolWorkersNext
    \/ GetPoolWorkersReturn
    \/ GetWorkerPoolsFirst
    \/ GetWorkerPoolsNext
    \/ GetWorkerPoolsReturn
    \/ MainFetched
    \/ MainOpenCsv
    \/ MainSkipCsv
    \/ CsvGatherHeaders
    \/ CsvFlattenPool
    \/ CsvSelect
    \/ CsvWriteRow
    \/ CsvReturn
    \/ MainCsvWritten
    \/ MainJson
    \/ SummaryStep
    \/ SummaryRender
    \/ PoolSummaryStep
    \/ PoolSummaryRender
    \/ MainPrint
    \/ MainRaised

SpecMain == InitMain /\ [][NextMain]_vars

InitDatetime ==
    /\ tool \in {Stats, Types}
    /\ pc = "to_datetime"
    /\ pos = 1
    /\ error = None
    /\ workers = <<>>
    /\ pools = <<>>
    /\ FetchIdle
    /\ SummaryInit
    /\ full_csv_datetimes \in BOOLEAN
    /\ raw_value \in DateStrings
    /\ value = None
    /\ csv_set = None
    /\ headers = <<>>
    /\ header_set = {}
    /\ flat_configs = <<>>
    /\ output_flat_configs = <<>>
    /\ out_headers = <<>>
    /\ csv_file = <<>>
    /\ FlattenIdle
    /\ MainIdle

NextDatetime == Normalize

SpecDatetime == InitDatetime /\ [][NextDatetime]_vars

InitFlatten ==
    /\ tool = Types
    /\ pc = "flatten_config"
    /\ pos = 1
    /\ error = None
    /\ workers = <<>>
    /\ pools = <<>>
    /\ FetchIdle
    /\ SummaryInit
    /\ CsvIdle
    /\ config_dict \in FlattenInputs
    /\ prefix \in {"", "lc"}
    /\ suffix \in BOOLEAN
    /\ ret = <<>>
    /\ MainIdle

NextFlatten == Flatten

SpecFlatten == InitFlatten /\ [][NextFlatten]_vars

InitCsv ==
    /\ tool \in {Stats, StatsOld, Types}
    /\ pc = "to_csv"
    /\ pos = 1
    /\ error = None
    /\ workers \in IF tool = Types THEN {<<>>} ELSE SeqUpTo(CsvWorkers, MaxCsvRecords)
    /\ pools \in IF tool = Types THEN SeqUpTo(CsvPools, MaxCsvRecords) ELSE {<<>>}
    /\ FetchIdle
    /\ SummaryInit
    /\ full_csv_datetimes \in IF tool = StatsOld THEN {FALSE} ELSE BOOLEAN
    /\ raw_value = None
    /\ value = None
    /\ csv_set \in IF tool = Types THEN {None, "amis"} ELSE {None}
    /\ headers = <<>>
    /\ header_set = {}
    /\ flat_configs = <<>>
    /\ output_flat_configs = <<>>
    /\ out_headers = <<>>
    /\ csv_file = <<>>
    /\ FlattenIdle
    /\ MainIdle

NextCsv ==
    \/ CsvGatherHeaders
    \/ CsvFlattenPool
    \/ CsvSelect
    \/ CsvWriteRow
    \/ CsvReturn

SpecCsv == InitCsv /\ [][NextCsv]_vars

-----------------------------------------------------------------------------
(* Claims about the pagination collectors *)

\* The items of all pages, in page order
RECURSIVE AllItems(_, _)
AllItems(ps, key) ==
    IF ps = <<>> THEN <<>>
    ELSE Get(ps[1], key, <<>>) \o AllItems(Tail(ps), key)

\* The queries that follow the tokens: none, then each page's token but the last's
TokenChain(ps) ==
    [k \in 1..Len(ps) |->
        IF k = 1 THEN None ELSE Get(ps[k - 1], "continuationToken", None)]

\* C3: get_pool_workers calls the listing once per page, the first call
\* without a token and each later call with the previous page's token, never
\* calls past the page without a token, can always go on until it has
\* returned, and returns the workers of all pages in page order.
C3_PoolWorkersAllPages ==
    tool \in {Stats, StatsOld} =>
        /\ Len(calls) <= Len(pages)
        /\ calls = SubSeq(TokenChain(pages), 1, Len(calls))
        /\ pc \in {"get_pool_workers", "get_pool_workers_loop"} => ENABLED NextPages
        /\ pc \in {"get_pool_workers", "get_pool_workers_loop", "get_pool_workers_done"}
        /\ pc = "get_pool_workers_done" =>
              /\ calls = TokenChain(pages)
              /\ page_count = Len(pages)
              /\ workers = AllItems(pages, "workers")

\* C3 witness: a listing of three pages has been collected
C3_Witness ==
    /\ tool = Stats
    /\ pc = "get_pool_workers_done"
    /\ Len(pages) = 3
    /\ Len(calls) = 3
    /\ Len(workers) >= 3

\* C4: get_worker_pools follows the tokens to the last page and returns the
\* pools of all pages in page order, raising no error of its own.
C4_WorkerPoolsAllPages ==
    tool = Types =>
        /\ pc # "get_worker_pools_raised"
        /\ pc = "get_worker_pools_done" => pools = AllItems(pages, "workerPools")

-----------------------------------------------------------------------------
(* Claims about worker_summary *)

\* The capacities of all workers, capacity 1 when the field is absent
CapacitiesOf(ws) == [n \in 1..Len(ws) |-> Get(ws[n], "capacity", IntVal(1)).v]

\* C1: for a non-empty list of workers, the per-group capacities, the
\* per-state capacities and the workers' capacities (1 when absent) all have
\* the same sum.
C1_CapacitySumsAgree ==
    pc = "summary_done" =>
        /\ SumOver(key_capacity_counts, key_set)
             = SumSeq(CapacitiesOf(workers))
        /\ SumOver(state_capacity_counts, DOMAIN state_capacity_counts)
             = SumSeq(CapacitiesOf(workers))

\* The workers of ws in state s (absent state is '')
InState(ws, s) == {n \in 1..Len(ws) : Get(ws[n], "state", Str("")).v = s}

\* The states of ws outside the four known ones, each once, by first encounter
RECURSIVE UnknownStates(_, _)
UnknownStates(ws, seen) ==
    IF ws = <<>> THEN <<>>
    ELSE LET s == Get(ws[1], "state", Str("")).v
         IN  IF s \in seen THEN UnknownStates(Tail(ws), seen)
             ELSE <<s>> \o UnknownStates(Tail(ws), seen \cup {s})

\* C2: the per-state table lists 'requested', 'running', 'stopping',
\* 'stopped' and then each other state once in order of first encounter,
\* each with the number of workers in that state and the sum of their
\* capacities.
C2_StateTotals ==
    pc = "summary_done" =>
        LET order == <<"requested", "running", "stopping", "stopped">>
                       \o UnknownStates(workers,
                              {"requested", "running", "stopping", "stopped"})
        IN  state_rows =
                [n \in 1..Len(order) |->
                    << order[n],
                       Cardinality(InState(workers, order[n])),
                       SumOver([m \in InState(workers, order[n]) |->
                                   Get(workers[m], "capacity", IntVal(1)).v],
                               InState(workers, order[n])) >>]

\* The lines of the group table in output: its header and one per key
GroupTable == SubSeq(output, 1, 1 + Len(keys))

\* The lines of the per-state table in output: its header and one per state
StateTable == SubSeq(output, Len(keys) + 4, Len(output))

\* The values printed under the group table's titles, line by line
GroupValues ==
    [r \in 1..Len(keys) |->
        keys[r] \o << ToString(Count(key_worker_counts, keys[r])),
                      ToString(Count(key_capacity_counts, keys[r])) >>]

\* The values printed under the per-state table's titles, line by line
StateValues ==
    [r \in 1..Len(state_rows) |->
        << state_rows[r][1], ToString(state_rows[r][2]), ToString(state_rows[r][3]) >>]

\* The widths the columns of the two tables are formatted to
GroupColumnWidths ==
    << width.pool_id_len, width.group_len, width.provider_len, width.state_len,
       width.workers_len, width.capacity_len >>
StateColumnWidths == << width.state_len, width.workers_len, width.capacity_len >>

\* Every width is the longest of the title and the values of its column, and
\* every cell of the table is exactly as wide as its column
ColumnsFit(table, titles, values, widths) ==
    /\ \A c \in 1..Len(titles) :
           widths[c] = Max({Len(titles[c])}
                           \cup {Len(values[r][c]) : r \in 1..Len(values)})
    /\ \A r \in 1..Len(table) : \A c \in 1..Len(titles) :
           Len(table[r][c]) = widths[c]

\* C11: in the group table and in the per-state table of worker_summary each
\* column's width is the longest of its title and of the values printed in
\* it, so that no printed value is longer than its column is wide.
C11_ColumnWidths ==
    pc = "summary_done" =>
        /\ ColumnsFit(GroupTable, GroupTitles, GroupValues, GroupColumnWidths)
        /\ ColumnsFit(StateTable, StateTitles, StateValues, StateColumnWidths)

\* StateOrder: the four known states, then the other states of the workers
\* in order of first encounter
StateOrder ==
    <<"requested", "running", "stopping", "stopped">>
        \o UnknownStates(workers, {"requested", "running", "stopping", "stopped"})

\* The (poolId, workerGroup, providerId, state) tuple of worker n, a field
\* the worker lacks being ''
GroupOf(n) ==
    << Get(workers[n], "workerPoolId", Str("")).v, Get(workers[n], "workerGroup", Str("")).v,
       Get(workers[n], "providerId", Str("")).v, Get(workers[n], "state", Str("")).v >>

\* The place of a state in an order of states
PlaceOf(state, order) == CHOOSE n \in 1..Len(order) : order[n] = state

\* Group a comes before group b: by poolId, then workerGroup, then
\* providerId, then the place of the state in the order of states
GroupBefore(a, b, order) ==
    \/ StrLess(a[1], b[1])
    \/ a[1] = b[1] /\ StrLess(a[2], b[2])
    \/ a[1] = b[1] /\ a[2] = b[2] /\ StrLess(a[3], b[3])
    \/ a[1] = b[1] /\ a[2] = b[2] /\ a[3] = b[3]
         /\ PlaceOf(a[4], order) < PlaceOf(b[4], order)

\* The groups a line of the group table can be about: those whose four
\* fields, padded, are its first four cells
GroupOfLine(line, groups) ==
    {g \in groups : \A c \in 1..4 : line[c] = LeftAlign(g[c], Len(line[c]))}

\* C12: the group table of worker_summary has, below its header, exactly one
\* line per distinct (poolId, workerGroup, providerId, state) of the workers,
\* and the lines are ordered by poolId, workerGroup and providerId and then
\* by the place of the state in StateOrder.
C12_GroupRowsOrdered ==
    pc = "summary_done" =>
        LET groups == {GroupOf(n) : n \in 1..Len(workers)}
            lines == Tail(GroupTable)
            order == StateOrder
            about == [r \in 1..Len(lines) |-> GroupOfLine(lines[r], groups)]
        IN  /\ Len(lines) = Cardinality(groups)
            /\ \A r \in 1..Len(lines) : Cardinality(about[r]) = 1
            /\ UNION {about[r] : r \in 1..Len(lines)} = groups
            /\ \A r, q \in 1..Len(lines) :
                   r < q =>
                       \E a \in about[r] : \E b \in about[q] : GroupBefore(a, b, order)

\* C12 witness: 'pending' was met before 'running' and the second pool
\* before the first, a second group and a second provider are present, and
\* the table lists the first pool's groups first, 'running' before 'pending'
C12_Witness ==
    /\ pc = "summary_done"
    /\ Len(workers) = 3
    /\ GroupOf(1) = <<"p2", "g", "aws", "pending">>
    /\ GroupOf(2) = <<"p1", "g", "aws", "pending">>
    /\ GroupOf(3) = <<"p1", "g", "aws", "running">>
    /\ Len(output[2][4]) >= Len("running") /\ SubSeq(output[2][4], 1, 7) = "running"
    /\ SubSeq(output[3][4], 1, 7) = "pending"
    /\ SubSeq(output[4][1], 1, 2) = "p2"

-----------------------------------------------------------------------------
(* Claims about the datetime normalizer *)

\* s has the form YYYY-MM-DDTHH:MM:SS[.mmm]Z and names a calendar time
SpecForm(s) ==
    /\ Len(s) \in {20, 24}
    /\ \A n \in {1, 2, 3, 4, 6, 7, 9, 10, 12, 13, 15, 16, 18, 19} :
           SubSeq(s, n, n) \in Digits
    /\ SubSeq(s, 5, 5) = "-" /\ SubSeq(s, 8, 8) = "-" /\ SubSeq(s, 11, 11) = "T"
    /\ SubSeq(s, 14, 14) = ":" /\ SubSeq(s, 17, 17) = ":"
    /\ Len(s) = 24 =>
          /\ SubSeq(s, 20, 20) = "."
          /\ \A n \in 21..23 : SubSeq(s, n, n) \in Digits
    /\ SubSeq(s, Len(s), Len(s)) = "Z"
    /\ ParseInt(SubSeq(s, 1, 4)) >= 1
    /\ ParseInt(SubSeq(s, 6, 7)) \in 1..12
    /\ ParseInt(SubSeq(s, 9, 10))
          \in 1..DaysInMonth(ParseInt(SubSeq(s, 1, 4)), ParseInt(SubSeq(s, 6, 7)))
    /\ ParseInt(SubSeq(s, 12, 13)) \in 0..23
    /\ ParseInt(SubSeq(s, 15, 16)) \in 0..59
    /\ ParseInt(SubSeq(s, 18, 19)) \in 0..59

\* The calendar time a string of that form names
Denoted(s, full) ==
    [year |-> ParseInt(SubSeq(s, 1, 4)), month |-> ParseInt(SubSeq(s, 6, 7)),
     day |-> ParseInt(SubSeq(s, 9, 10)), hour |-> ParseInt(SubSeq(s, 12, 13)),
     minute |-> ParseInt(SubSeq(s, 15, 16)), second |-> ParseInt(SubSeq(s, 18, 19)),
     microsecond |-> IF full /\ Len(s) = 24
                     THEN 1000 * ParseInt(SubSeq(s, 21, 23)) ELSE 0,
     tzinfo |-> IF full THEN "utc" ELSE None]

\* C7: every string of the form YYYY-MM-DDTHH:MM:SS[.mmm]Z, with or without
\* the milliseconds and for every hour 00 to 23, is accepted and converted to
\* the time it names: whole seconds and no zone with full precision off, the
\* milliseconds and the UTC zone with full precision on.
C7_NormalizerAcceptsSpecForm ==
    (pc \in {"to_datetime_done", "to_datetime_raised"} /\ SpecForm(raw_value)) =>
        /\ error = None
        /\ value = Denoted(raw_value, full_csv_datetimes)

-----------------------------------------------------------------------------
(* Claims about flatten_config *)

\* The leaves of a dict, each with the compound key its path derives: the
\* prefix and the keys on the path, each non-empty one followed by "_", then
\* the leaf's own key; an element of an expanded list has the key of the list
\* followed by "_" and its index.
RECURSIVE Leaves(_, _, _)
RECURSIVE LeavesOf(_, _, _, _)
LeavesOf(pre, key, val, sfx) ==
    IF IsMapping(val) THEN Leaves(val.v, pre \o Pre(key), sfx)
    ELSE IF sfx /\ IsList(val)
    THEN LET sub[n \in 0..Len(val.v)] ==
                 IF n = 0 THEN <<>>
                 ELSE sub[n - 1] \o
                      (IF IsMapping(val.v[n])
                       THEN Leaves(val.v[n].v,
                                   pre \o key \o "_" \o ToString(n - 1) \o "_", sfx)
                       ELSE << <<pre \o key \o "_" \o ToString(n - 1), val.v[n]>> >>)
         IN  sub[Len(val.v)]
    ELSE << <<pre \o key, val>> >>

Leaves(items, pre, sfx) ==
    IF items = <<>> THEN <<>>
    ELSE LeavesOf(pre, items[1][1], items[1][2], sfx) \o Leaves(Tail(items), pre, sfx)

\* Two different leaves derive the same compound key
Collides(leaves) ==
    \E m, n \in 1..Len(leaves) : m # n /\ leaves[m][1] = leaves[n][1]

\* C9: a call of flatten_config writes every derived compound key at most
\* once: when two paths of the input derive the same key the call fails, and
\* a mapping that is returned holds every leaf under its own key.
C9_NoKeyWrittenTwice ==
    pc \in {"flatten_config_done", "flatten_config_raised"} =>
        LET leaves == Leaves(config_dict, Pre(prefix), suffix)
        IN  /\ Collides(leaves) => error = "AssertionError"
            /\ error = None =>
                  /\ ret = leaves
                  /\ \A m, n \in 1..Len(ret) : m # n => ret[m][1] # ret[n][1]

\* C9 witness: a call has failed on an input with two paths to one key
C9_Witness ==
    /\ pc = "flatten_config_raised"
    /\ error = "AssertionError"
    /\ Collides(Leaves(config_dict, Pre(prefix), suffix))
    /\ suffix
    /\ \E n \in 1..Len(config_dict) : IsList(config_dict[n][2])

-----------------------------------------------------------------------------
(* Claims about to_csv *)

\* The records whose keys make up the header: the workers, or the flattened
\* pool and launch config rows
HeaderRecords == IF tool = Types THEN flat_configs ELSE workers

\* The header has been gathered from all of them
HeaderGathered == csv_file # <<>>

\* The first record that has the key
FirstRecord(records, key) ==
    CHOOSE n \in 1..Len(records) :
        HasKey(records[n], key) /\ \A m \in 1..(n - 1) : ~HasKey(records[m], key)

\* The place of a key among the keys of a record
PlaceIn(record, key) == CHOOSE n \in 1..Len(record) : record[n][1] = key

\* Scanning the records in order, key a is seen before key b
SeenBefore(records, a, b) ==
    \/ FirstRecord(records, a) < FirstRecord(records, b)
    \/ /\ FirstRecord(records, a) = FirstRecord(records, b)
       /\ PlaceIn(records[FirstRecord(records, a)], a)
            < PlaceIn(records[FirstRecord(records, a)], b)

\* C5: the header to_csv builds holds each field name at most once, its
\* names are exactly the union of the records' keys, and they stand in
\* first-seen order of a scan of the records in input order; without a CSV
\* view it is the header row written.
C5_HeaderIsFirstSeenUnion ==
    HeaderGathered =>
        /\ \A m, n \in 1..Len(headers) : m # n => headers[m] # headers[n]
        /\ {headers[n] : n \in 1..Len(headers)}
             = UNION {KeySet(HeaderRecords[n]) : n \in 1..Len(HeaderRecords)}
        /\ header_set = {headers[n] : n \in 1..Len(headers)}
        /\ \A m, n \in 1..Len(headers) :
               m < n => SeenBefore(HeaderRecords, headers[m], headers[n])
        /\ ~Truthy(csv_set) => csv_file[1] = headers

\* C5 witness: two workers with different keys have been exported
C5_Witness ==
    /\ tool = Stats
    /\ pc = "to_csv_done"
    /\ Len(workers) = 2
    /\ Keys(workers[1]) = <<"created", "workerId">>
    /\ headers = <<"created", "workerId", "state">>

\* Every value of the record under a date field has the form
\* YYYY-MM-DDTHH:MM:SS[.mmm]Z
DatesHaveSpecForm(record) ==
    \A n \in 1..Len(record) :
        record[n][1] \in {"created", "expires", "lastModified", "lastChecked"}
            => SpecForm(record[n][2].v)

\* The data row written for a record: under every field name the record's
\* value (a datetime for a converted date field), '' where it has none
RowIsOf(cells, record, names) ==
    /\ Len(cells) = Len(names)
    /\ \A m \in 1..Len(names) :
           IF ~HasKey(record, names[m]) THEN cells[m] = Str("")
           ELSE IF names[m] \in DateKeys(tool) THEN cells[m].t = "datetime"
           ELSE cells[m] = Get(record, names[m], Str(""))

\* C6: the worker-level to_csv writes the header row and then one data row
\* per record, in input order, for records whose timestamps have the
\* documented form; an empty input gives an empty header and no data row.
C6_OneRowPerRecord ==
    ( /\ tool \in {Stats, StatsOld}
      /\ pc \in {"to_csv_done", "to_csv_raised"}
      /\ \A n \in 1..Len(workers) : DatesHaveSpecForm(workers[n]) ) =>
        /\ pc = "to_csv_done"
        /\ Len(csv_file) = 1 + Len(workers)
        /\ \A n \in 1..Len(workers) : RowIsOf(csv_file[n + 1], workers[n], headers)
        /\ workers = <<>> => csv_file = << <<>> >>

\* A value of the record under a date field does not match RE_DATETIME
HasMalformedDate(record) ==
    \E n \in 1..Len(record) :
        /\ record[n][1] \in {"created", "expires", "lastModified", "lastChecked"}
        /\ ~DatetimeMatch(record[n][2].v)

ViewTuple(row) ==
    [n \in 1..Len(AmisColumns) |->
        IF HasKey(row, AmisColumns[n]) THEN Get(row, AmisColumns[n], Str(""))
        ELSE Str("")]

\* The view columns' values of an output row
OutTuple(out) == [n \in 1..Len(AmisColumns) |-> out[n][2]]

LaunchConfigsOf(pool) ==
    Get(Get(pool, "config", Dict(<<>>)).v, "launchConfigs", List(<<>>)).v

\* The row of a pool and one of its launch configs: the pool's flattened
\* fields without config_launchConfigs, a field that the launch config also
\* has taking the launch config's value, then the launch config's other
\* fields, flattened under the prefix lc
ExpectedRow(pool, config) ==
    LET pool_fields == SelectSeq(Leaves(pool, Pre(""), FALSE),
                                 LAMBDA leaf : leaf[1] # "config_launchConfigs")
        lc_fields == Leaves(config.v, Pre("lc"), TRUE)
    IN  [n \in 1..Len(pool_fields) |->
            IF HasKey(lc_fields, pool_fields[n][1])
            THEN << pool_fields[n][1], Get(lc_fields, pool_fields[n][1], Str("")) >>
            ELSE pool_fields[n]]
        \o SelectSeq(lc_fields, LAMBDA leaf : ~HasKey(pool_fields, leaf[1]))

RECURSIVE ExpectedRows(_)
\* The rows of a list of pools: for every pool in order, one row for each of
\* its launch configs in order
ExpectedRows(ps) ==
    IF ps = <<>> THEN <<>>
    ELSE [j \in 1..Len(LaunchConfigsOf(ps[1])) |->
             ExpectedRow(ps[1], LaunchConfigsOf(ps[1])[j])]
         \o ExpectedRows(Tail(ps))

\* C15: without a CSV view, for pools that flatten and whose timestamps have
\* the documented form, the pool tool's to_csv writes as many data rows as
\* the pools' config.launchConfigs lists have elements in all, each row the
\* pool's flattened fields (without config_launchConfigs) merged with the
\* launch config's fields flattened under 'lc', and the header holds the
\* rows' field names only, so a pool with no launch config adds no row and
\* no field name.
C15_RowPerLaunchConfig ==
    ( /\ tool = Types
      /\ ~Truthy(csv_set)
      /\ pc \in {"to_csv_done", "to_csv_raised"}
      /\ csv_file # <<>>
      /\ \A n \in 1..Len(pools) : DatesHaveSpecForm(pools[n]) ) =>
        LET rows == ExpectedRows(pools)
        IN  /\ pc = "to_csv_done"
            /\ Len(csv_file) - 1
                 = SumSeq([n \in 1..Len(pools) |-> Len(LaunchConfigsOf(pools[n]))])
            /\ Len(csv_file) - 1 = Len(rows)
            /\ \A r \in 1..Len(rows) : RowIsOf(csv_file[r + 1], rows[r], csv_file[1])
            /\ {csv_file[1][n] : n \in 1..Len(csv_file[1])}
                 = UNION {KeySet(rows[r]) : r \in 1..Len(rows)}

-----------------------------------------------------------------------------
(* Claims about the entry point and main *)

\* The auth configuration is absent and no --from-json-file was given
ConfigAbsent == auth_options = <<>> /\ args.from_json_file = None

\* The tool needs a pool identifier, and none and no --from-json-file was given
PoolIdMissing == tool # Types /\ args.pool_id = None /\ args.from_json_file = None

\* C13: the entry point exits with code 1, having made no API call and
\* written no file, when the auth configuration is absent or the required
\* pool identifier is missing (and no --from-json-file was given), and with
\* code 0 exactly when the run succeeds: otherwise, with no exception, the
\* summary is printed and the code is 0.
C13_ExitCodes ==
    pc = "exited" =>
        /\ (ConfigAbsent \/ PoolIdMissing) =>
               /\ retcode = 1
               /\ api = <<>> /\ calls = <<>>
               /\ opened = {}
        /\ (~ConfigAbsent /\ ~PoolIdMissing /\ error = None) =>
               /\ retcode = 0
               /\ stdout = <<output>>
        /\ retcode = 0 => error = None

RECURSIVE ItemsOf(_)
\* The items of a listing's pages, in order
ItemsOf(ps) ==
    IF ps = <<>> THEN <<>>
    ELSE Get(ps[1], ItemsKey(tool), <<>>) \o ItemsOf(Tail(ps))

\* The records the run is given: those of the file, or of the listing
GivenRecords == IF args.from_json_file # None THEN source ELSE ItemsOf(pages)

\* The CSV export has written the header and a row for every record
CsvComplete == csv_file # <<>> /\ Len(csv_file) = 1 + Len(RowSource)

\* The CSV export was begun and ended in an exception
CsvFailed ==
    /\ args.csv_file \in opened
    /\ pc \in {"to_csv_raised", "exited"}
    /\ error # None
    /\ ~CsvComplete

\* The summary function has been called
SummaryBegun ==
    pc \in {"summary", "summary_done", "summary_raised", "pool_summary",
            "pool_summary_done", "pool_summary_raised"}
    \/ key_set # {} \/ output # <<>>

\* The order of a run: a file is opened only with all records loaded, the
\* JSON file is written only after the CSV export is complete, the summary is
\* begun only after the JSON file is written, and after a failed CSV export
\* there is no JSON file and no summary, and the header and the rows before
\* the failing record are in the CSV file
C14_Order ==
    /\ opened # {} => Records = GivenRecords
    /\ dumped # <<>> =>
           /\ dumped = <<Records>>
           /\ args.json_file \in opened
           /\ args.csv_file # None => args.csv_file \in opened /\ CsvComplete
    /\ SummaryBegun =>
           /\ args.csv_file # None => args.csv_file \in opened /\ CsvComplete
           /\ args.json_file # None => dumped = <<Records>>
    /\ (pc = "exited" /\ retcode = 0) => stdout = <<output>> /\ SummaryBegun
    /\ CsvFailed =>
           /\ dumped = <<>>
           /\ opened = {args.csv_file}
           /\ ~SummaryBegun
           /\ stdout = <<>>
           /\ pc = "exited" => retcode = 1
           /\ \A n \in 1..Len(RowSource) :
                  (csv_file # <<>> /\ HasMalformedDate(RowSource[n])
                     /\ \A m \in 1..(n - 1) : ~HasMalformedDate(RowSource[m]))
                  => /\ Len(csv_file) = n
                     /\ csv_file[1] = Fieldnames

\* Every failure is terminal: from an exception the only step is the exit
\* with status 1, which writes and prints nothing, and nothing follows the
\* exit
C14_Terminal ==
    /\ pc # "exited"
    /\ pc \in Raised =>
           /\ pc' = "exited"
           /\ retcode' = 1
           /\ UNCHANGED <<csv_file, opened, dumped, stdout, api, calls>>

\* C14: a run of main is strictly sequential and every failure is terminal:
\* the records are loaded or fetched, then the CSV file is written, then the
\* JSON file, then the summary is printed; when the CSV export fails on a
\* malformed record, the JSON file is never written and the summary never
\* printed, and the CSV header and the rows written before the failing record
\* stay in the file.
C14_SequentialAndTerminal == [](C14_Order) /\ [][C14_Terminal]_vars

\* C14 witness: both files were asked for, the second of two records is
\* malformed, and the run has ended with the header and one row in the CSV
\* file, no JSON file and nothing printed
C14_Witness ==
    /\ pc = "exited"
    /\ tool = Stats
    /\ args.csv_file = "out.csv" /\ args.json_file = "out.json"
    /\ error = "AssertionError"
    /\ Len(workers) = 2
    /\ HasMalformedDate(workers[2])
    /\ Len(csv_file) = 2
    /\ opened = {"out.csv"}
    /\ dumped = <<>>
    /\ stdout = <<>>
    /\ retcode = 1

====
